---- MODULE Spec2Model ----
(***************************************************************************)
(* A model of report.py: the seed list (parse_seeds), peer resolution      *)
(* (get_peers_from_finnhub), the pivot row (fetch_bar, pivots, make_row),  *)
(* group assembly (build_group) and the run loop (build_all).              *)
(*                                                                         *)
(* Strings are sequences of ASCII code points, so that strip(), upper(),   *)
(* split(",") and the string order of sort_values are computed, not        *)
(* assumed.  Floats are IEEE-754 doubles [t, s, m, e] (t = "num"): sign s, *)
(* and the value m * 2^e with m an odd integer of at most 53 bits, held as *)
(* limbs; every operation rounds to nearest, ties to even, as the          *)
(* hardware does.  NaN is t = "nan"; the empty string that make_row stores *)
(* in "% Chg" is the cell t = "str".  Infinities, overflow, subnormals and *)
(* the sign of zero are outside the model.                                 *)
(***************************************************************************)
EXTENDS Integers, Sequences, FiniteSets, TLC

VARIABLES
    env,      \* the environment variables the script reads
    pandas,   \* what the installed pandas does with labels that are missing
    pc,       \* where the run is: main, build_all, build_group, returned, fatal
    seeds,    \* parse_seeds()'s result
    si,       \* build_all: index of the seed being built
    resp,     \* build_group: what the peers service answered, if asked
    ordered,  \* build_group: the candidate list
    ti,       \* build_group: index of the candidate being fetched
    rows,     \* build_group: the rows collected so far
    skipped,  \* build_group: the tickers logged as "[Data] skip"
    calls,    \* build_group: the external calls issued, in order
    last,     \* the latest make_row: the frame's length, and whether it raised
    ret,      \* the latest build_group's outcome
    groups,   \* build_all: the dict of frames
    failed,   \* build_all: the seeds logged as "[Group] ... failed"
    probe     \* a call of pivots on its own: the arguments and the result

vars == <<env, pandas, pc, seeds, si, resp, ordered, ti, rows, skipped, calls,
          last, ret, groups, failed, probe>>

(***************************************************************************)
(* Bounds of the model.                                                    *)
(***************************************************************************)
MaxEnvLen == 4
MaxRespLen == 3
MaxPrice == 3

(***************************************************************************)
(* Program constants.                                                      *)
(***************************************************************************)
MAX_PEERS == 12

\* "NVDA,TSLA,HD,TOL"
HARDCODED_SEEDS ==
    <<78, 86, 68, 65, 44, 84, 83, 76, 65, 44, 72, 68, 44, 84, 79, 76>>

(***************************************************************************)
(* Strings.                                                                *)
(***************************************************************************)
\* str.isspace() on ASCII: \t \n \v \f \r, \x1c..\x1f and the space.
IsSpace(c) == c \in (9..13) \cup (28..32)

\* str.upper() of one ASCII character.
UpperChar(c) == IF c \in 97..122 THEN c - 32 ELSE c

\* str.upper()
Upper(s) == [i \in 1..Len(s) |-> UpperChar(s[i])]

RECURSIVE LStrip(_)
LStrip(s) ==
    IF s = <<>> THEN <<>>
    ELSE IF IsSpace(Head(s)) THEN LStrip(Tail(s)) ELSE s

RECURSIVE RStrip(_)
RStrip(s) ==
    IF s = <<>> THEN <<>>
    ELSE IF IsSpace(s[Len(s)]) THEN RStrip(SubSeq(s, 1, Len(s) - 1)) ELSE s

\* str.strip()
Strip(s) == RStrip(LStrip(s))

\* str.split(","): the pieces between commas, empty pieces kept.
RECURSIVE SplitFrom(_, _, _)
SplitFrom(s, i, cur) ==
    IF i > Len(s) THEN <<cur>>
    ELSE IF s[i] = 44 THEN <<cur>> \o SplitFrom(s, i + 1, <<>>)
    ELSE SplitFrom(s, i + 1, Append(cur, s[i]))

SplitComma(s) == SplitFrom(s, 1, <<>>)

\* Lexicographic order of two strings by code point (Python's str <).
RECURSIVE StrLess(_, _)
StrLess(a, b) ==
    IF b = <<>> THEN FALSE
    ELSE IF a = <<>> THEN TRUE
    ELSE IF Head(a) < Head(b) THEN TRUE
    ELSE IF Head(a) > Head(b) THEN FALSE
    ELSE StrLess(Tail(a), Tail(b))

InSeq(x, s) == \E i \in 1..Len(s) : s[i] = x

\* The loop "if x not in seen: seen.add(x); out.append(x)".
RECURSIVE DedupFrom(_, _)
DedupFrom(s, out) ==
    IF s = <<>> THEN out
    ELSE DedupFrom(Tail(s), IF InSeq(Head(s), out) THEN out
                            ELSE Append(out, Head(s)))

DedupKeepFirst(s) == DedupFrom(s, <<>>)

RECURSIVE SelectNonBlank(_)
SelectNonBlank(parts) ==
    IF parts = <<>> THEN <<>>
    ELSE IF Strip(Head(parts)) # <<>>
         THEN <<Upper(Strip(Head(parts)))>> \o SelectNonBlank(Tail(parts))
         ELSE SelectNonBlank(Tail(parts))

(***************************************************************************)
(* get_env and parse_seeds.  An unset variable reads as "".                *)
(***************************************************************************)
get_env(e, name) == Strip(e[name])

\* The string parse_seeds splits: TICKERS, else DEFAULT_TICKERS, else the
\* hardcoded list.
SeedSource(e) ==
    IF get_env(e, "TICKERS") # <<>> THEN get_env(e, "TICKERS")
    ELSE IF get_env(e, "DEFAULT_TICKERS") # <<>>
         THEN get_env(e, "DEFAULT_TICKERS")
         ELSE HARDCODED_SEEDS

parse_seeds(e) == DedupKeepFirst(SelectNonBlank(SplitComma(SeedSource(e))))

(***************************************************************************)
(* Natural numbers of any size, as limbs of LimbBits bits, least           *)
(* significant first, no leading zero limb (0 is <<>>).  They carry the    *)
(* mantissas and the exact intermediate results of the float operations.   *)
(***************************************************************************)
LimbBits == 15

LimbBase == 2^LimbBits

\* The width of a double's mantissa.
MantBits == 53

Abs(x) == IF x < 0 THEN -x ELSE x

Low(a) == IF a = <<>> THEN 0 ELSE Head(a)

Rest(a) == IF a = <<>> THEN <<>> ELSE Tail(a)

RECURSIVE BNorm(_)
BNorm(a) ==
    IF a # <<>> /\ a[Len(a)] = 0 THEN BNorm(SubSeq(a, 1, Len(a) - 1)) ELSE a

RECURSIVE BFromInt(_)
BFromInt(n) ==
    IF n = 0 THEN <<>> ELSE <<n % LimbBase>> \o BFromInt(n \div LimbBase)

RECURSIVE BAddC(_, _, _)
BAddC(a, b, carry) ==
    IF a = <<>> /\ b = <<>> THEN BFromInt(carry)
    ELSE LET x == Low(a) + Low(b) + carry
         IN  <<x % LimbBase>> \o BAddC(Rest(a), Rest(b), x \div LimbBase)

BAdd(a, b) == BAddC(a, b, 0)

\* a - b for a >= b.
RECURSIVE BSubC(_, _, _)
BSubC(a, b, borrow) ==
    IF a = <<>> THEN <<>>
    ELSE LET x == Head(a) - Low(b) - borrow
         IN  IF x < 0 THEN <<x + LimbBase>> \o BSubC(Tail(a), Rest(b), 1)
             ELSE <<x>> \o BSubC(Tail(a), Rest(b), 0)

BSub(a, b) == BNorm(BSubC(a, b, 0))

RECURSIVE BCmpFrom(_, _, _)
BCmpFrom(a, b, i) ==
    IF i = 0 THEN 0
    ELSE IF a[i] > b[i] THEN 1
    ELSE IF a[i] < b[i] THEN -1
    ELSE BCmpFrom(a, b, i - 1)

\* 1, 0 or -1 as a is above, equal to or below b.
BCmp(a, b) ==
    IF Len(a) > Len(b) THEN 1
    ELSE IF Len(a) < Len(b) THEN -1
    ELSE BCmpFrom(a, b, Len(a))

\* a * k for 0 <= k <= LimbBase.
RECURSIVE BMulSmallC(_, _, _)
BMulSmallC(a, k, carry) ==
    IF a = <<>> THEN BFromInt(carry)
    ELSE LET x == Head(a) * k + carry
         IN  <<x % LimbBase>> \o BMulSmallC(Tail(a), k, x \div LimbBase)

BMulSmall(a, k) == IF k = 0 THEN <<>> ELSE BMulSmallC(a, k, 0)

\* a * LimbBase^w
ShiftLimbs(a, w) ==
    IF a = <<>> \/ w = 0 THEN a ELSE [i \in 1..w |-> 0] \o a

RECURSIVE BMul(_, _)
BMul(a, b) ==
    IF b = <<>> THEN <<>>
    ELSE BAdd(BMulSmall(a, Head(b)), ShiftLimbs(BMul(a, Tail(b)), 1))

RECURSIVE IntBitLen(_)
IntBitLen(n) == IF n = 0 THEN 0 ELSE 1 + IntBitLen(n \div 2)

\* The number of bits of a.
BBitLen(a) ==
    IF a = <<>> THEN 0 ELSE LimbBits * (Len(a) - 1) + IntBitLen(a[Len(a)])

\* a * 2^n
BShl(a, n) == ShiftLimbs(BMulSmall(a, 2^(n % LimbBits)), n \div LimbBits)

\* a div k and a mod k for 0 < k < LimbBase, from the top limb down.
RECURSIVE BDivSmallFrom(_, _, _, _)
BDivSmallFrom(a, k, i, r) ==
    IF i = 0 THEN [q |-> <<>>, r |-> r]
    ELSE LET x == r * LimbBase + a[i]
             lower == BDivSmallFrom(a, k, i - 1, x % k)
         IN  [q |-> lower.q \o <<x \div k>>, r |-> lower.r]

BDivSmall(a, k) ==
    LET d == BDivSmallFrom(a, k, Len(a), 0)
    IN  [q |-> BNorm(d.q), r |-> BFromInt(d.r)]

\* The largest d in lo..hi with b * d <= r (b * lo <= r is given).
RECURSIVE DigitSearch(_, _, _, _)
DigitSearch(r, b, lo, hi) ==
    IF lo = hi THEN lo
    ELSE LET mid == (lo + hi + 1) \div 2
         IN  IF BCmp(BMulSmall(b, mid), r) <= 0
             THEN DigitSearch(r, b, mid, hi)
             ELSE DigitSearch(r, b, lo, mid - 1)

\* a div b and a mod b, limb by limb from the top.
RECURSIVE BDivModFrom(_, _, _, _)
BDivModFrom(a, b, i, r) ==
    IF i = 0 THEN [q |-> <<>>, r |-> r]
    ELSE LET r2 == BNorm(<<a[i]>> \o r)
             d == DigitSearch(r2, b, 0, LimbBase - 1)
             lower == BDivModFrom(a, b, i - 1, BSub(r2, BMulSmall(b, d)))
         IN  [q |-> lower.q \o <<d>>, r |-> lower.r]

\* a div b and a mod b for b > 0.
BDivMod(a, b) ==
    IF Len(b) = 1 THEN BDivSmall(a, b[1])
    ELSE LET d == BDivModFrom(a, b, Len(a), <<>>)
         IN  [q |-> BNorm(d.q), r |-> d.r]

\* a div 2^n
BShr(a, n) ==
    LET w == n \div LimbBits
    IN  IF w >= Len(a) THEN <<>>
        ELSE BDivSmall(SubSeq(a, w + 1, Len(a)), 2^(n % LimbBits)).q

\* a mod 2^n
BLowBits(a, n) ==
    LET w == n \div LimbBits
        k == IF Len(a) < w + 1 THEN Len(a) ELSE w + 1
    IN  BNorm([i \in 1..k |-> IF i <= w THEN a[i]
                              ELSE a[i] % 2^(n % LimbBits)])

BIsOdd(a) == a # <<>> /\ a[1] % 2 = 1

\* The number of zero bits at the low end of a > 0.
RECURSIVE TrailingZeros(_)
TrailingZeros(a) ==
    IF a[1] = 0 THEN LimbBits + TrailingZeros(Tail(a))
    ELSE IF a[1] % 2 = 1 THEN 0
    ELSE 1 + TrailingZeros(<<a[1] \div 2>>)

(***************************************************************************)
(* Floats.                                                                 *)
(***************************************************************************)
NaN == [t |-> "nan", s |-> 0, m |-> <<>>, e |-> 0]

\* The empty string make_row puts in a cell.
Blank == [t |-> "str", s |-> 0, m |-> <<>>, e |-> 0]

Zero == [t |-> "num", s |-> 0, m |-> <<>>, e |-> 0]

\* The double (-1)^s * M * 2^E, for M of at most MantBits bits.
Canon(s, M, E) ==
    IF M = <<>> THEN Zero
    ELSE LET tz == TrailingZeros(M)
         IN  [t |-> "num", s |-> s, m |-> BShr(M, tz), e |-> E + tz]

\* The double nearest to (-1)^s * (M + f) * 2^E, ties to even, where
\* 0 <= f < 1 and sticky tells whether f > 0 (M then has more than
\* MantBits bits).
RoundBig(s, M, sticky, E) ==
    LET extra == BBitLen(M) - MantBits
    IN  IF extra <= 0 THEN Canon(s, M, E)
        ELSE LET kept == BShr(M, extra)
                 cmp == BCmp(BLowBits(M, extra), BShl(<<1>>, extra - 1))
                 up == cmp > 0 \/ (cmp = 0 /\ (sticky \/ BIsOdd(kept)))
             IN  Canon(s, IF up THEN BAdd(kept, <<1>>) ELSE kept, E + extra)

\* The double nearest to (-1)^s * (N / D) * 2^E, for N >= 0 and D > 0.
RoundQuot(s, N, D, E) ==
    IF N = <<>> THEN Zero
    ELSE LET gap == MantBits + 2 + BBitLen(D) - BBitLen(N)
             k == IF gap > 0 THEN gap ELSE 0
             qr == BDivMod(BShl(N, k), D)
         IN  RoundBig(s, qr.q, qr.r # <<>>, E - k)

\* float(i) for an integer i.
Num(i) == Canon(IF i < 0 THEN 1 ELSE 0, BFromInt(Abs(i)), 0)

\* The double written n/d (d > 0): the one nearest to the quotient.
Q(n, d) == RoundQuot(IF n < 0 THEN 1 ELSE 0, BFromInt(Abs(n)), BFromInt(d), 0)

IsNum(x) == x.t = "num"

\* math.isfinite
IsFinite(x) == IsNum(x)

IsZero(x) == IsNum(x) /\ x.m = <<>>

Neg(x) == IF IsNum(x) /\ x.m # <<>> THEN [x EXCEPT !.s = 1 - x.s] ELSE x

Add(x, y) ==
    IF ~(IsNum(x) /\ IsNum(y)) THEN NaN
    ELSE LET e == IF x.e < y.e THEN x.e ELSE y.e
             a == BShl(x.m, x.e - e)
             b == BShl(y.m, y.e - e)
             cmp == BCmp(a, b)
         IN  IF x.s = y.s THEN RoundBig(x.s, BAdd(a, b), FALSE, e)
             ELSE IF cmp = 0 THEN Zero
             ELSE IF cmp > 0 THEN RoundBig(x.s, BSub(a, b), FALSE, e)
             ELSE RoundBig(y.s, BSub(b, a), FALSE, e)

Sub(x, y) == Add(x, Neg(y))

Mul(x, y) ==
    IF ~(IsNum(x) /\ IsNum(y)) THEN NaN
    ELSE RoundBig((x.s + y.s) % 2, BMul(x.m, y.m), FALSE, x.e + y.e)

\* x / y for y # 0 (the code never divides by zero).
Div(x, y) ==
    IF ~(IsNum(x) /\ IsNum(y)) \/ IsZero(y) THEN NaN
    ELSE RoundQuot((x.s + y.s) % 2, x.m, y.m, x.e - y.e)

\* x > 0; any comparison with NaN is False.
GtZero(x) == IsNum(x) /\ x.m # <<>> /\ x.s = 0

\* A float's truth value: 0.0 is false, every other float (NaN too) is true.
Truthy(x) == ~IsZero(x)

\* round(x, 2): the multiple of 1/100 nearest to the double's exact value,
\* ties to even, then the double nearest to that multiple; round(nan, 2)
\* is nan.
Round2(x) ==
    IF ~IsNum(x) THEN x
    ELSE LET n == BMulSmall(x.m, 100)
             sh == -x.e
             kept == BShr(n, sh)
             cmp == BCmp(BLowBits(n, sh), BShl(<<1>>, sh - 1))
             k == IF x.e >= 0 THEN BShl(n, x.e)
                  ELSE IF cmp > 0 \/ (cmp = 0 /\ BIsOdd(kept))
                       THEN BAdd(kept, <<1>>)
                  ELSE kept
         IN  RoundQuot(x.s, k, <<100>>, 0)

(***************************************************************************)
(* pivots(h, l, c)                                                         *)
(***************************************************************************)
\* A variant with R1 taken from the high instead of the low.
pivots_SwappedR1(h, l, c) ==
    LET P  == Div(Add(Add(h, l), c), Num(3))
        R1 == Sub(Mul(Num(2), P), h)
        S1 == Sub(Mul(Num(2), P), h)
        R2 == Add(P, Sub(h, l))
        S2 == Sub(P, Sub(h, l))
    IN  [P |-> P, S1 |-> S1, S2 |-> S2, R1 |-> R1, R2 |-> R2]

pivots(h, l, c) ==
    LET P  == Div(Add(Add(h, l), c), Num(3))
        R1 == Sub(Mul(Num(2), P), l)
        S1 == Sub(Mul(Num(2), P), h)
        R2 == Add(P, Sub(h, l))
        S2 == Sub(P, Sub(h, l))
    IN  [P |-> P, S1 |-> S1, S2 |-> S2, R1 |-> R1, R2 |-> R2]

(***************************************************************************)
(* fetch_bar.  dl is what yf.download gave: exc (it raised), or a frame,   *)
(* its rows oldest first, each [Date, High, Low, Close], its column labels *)
(* plain strings or (multi) tuples of (price, ticker).                     *)
(*                                                                         *)
(* pick(col) returns the column itself, df[c], not its label, so that      *)
(* row[pick(col)] asks the row for the column's values as if they were     *)
(* labels.  No float is a label of the row.  What pandas does with labels  *)
(* that are missing depends on its version: from 1.1 on the lookup raises  *)
(* KeyError (pandas = "KeyError"); up to 1.0 it gives one NaN per label    *)
(* (pandas = "reindex").                                                   *)
(***************************************************************************)
\* _as_float: float(x), or NaN where float(x) raises.
_as_float(x) == IF x.t \in {"num", "nan"} THEN x ELSE NaN

\* pick(col): the values of the column, one per row of the frame.
pick(dl, col) == [i \in 1..Len(dl.bars) |-> dl.bars[i][col]]

\* row[key] for a key that is a column: the values looked up as labels.
RowGet(key, pd) ==
    IF pd = "KeyError" THEN [raised |-> TRUE, val |-> <<>>]
    ELSE [raised |-> FALSE, val |-> [i \in 1..Len(key) |-> NaN]]

\* _as_float(row[pick(col)].iloc[0])
Cell(dl, col, pd) == _as_float(RowGet(pick(dl, col), pd).val[1])

fetch_bar(dl, pd) ==
    IF dl.exc \/ Len(dl.bars) < 1 THEN [raised |-> TRUE]
    ELSE IF dl.multi THEN [raised |-> TRUE]
    ELSE IF RowGet(pick(dl, "High"), pd).raised THEN [raised |-> TRUE]
    ELSE LET lastbar == dl.bars[Len(dl.bars)]
             c == Cell(dl, "Close", pd)
             prevc == IF Len(dl.bars) >= 2 THEN Cell(dl, "Close", pd) ELSE c
         IN  [raised |-> FALSE, date |-> lastbar.Date,
              h |-> Cell(dl, "High", pd), l |-> Cell(dl, "Low", pd),
              c |-> c, prevc |-> prevc]

(***************************************************************************)
(* make_row: its locals once fetch_bar has returned bar b, and the row.    *)
(***************************************************************************)
\* Close <= 0 or NaN falls back to the previous close.
CloseUsed(b) == IF IsFinite(b.c) /\ GtZero(b.c) THEN b.c ELSE b.prevc

PctChange(c, prevc) ==
    IF Truthy(prevc) THEN Mul(Div(Sub(c, prevc), prevc), Num(100)) ELSE NaN

PctCell(chg) == IF IsFinite(chg) THEN Round2(chg) ELSE Blank

make_row_locals(b) ==
    LET c == CloseUsed(b)
    IN  [h |-> b.h, l |-> b.l, c |-> c, prevc |-> b.prevc,
         lv |-> pivots(b.h, b.l, c), chg |-> PctChange(c, b.prevc)]

\* The returned dict, from make_row's locals v.
make_row_dict(ticker, date, v) ==
    [Ticker |-> ticker, Date |-> date,
     High |-> Round2(v.h), Low |-> Round2(v.l), Close |-> Round2(v.c),
     PrevClose |-> Round2(v.prevc), PctChg |-> PctCell(v.chg),
     PivotP |-> Round2(v.lv.P), S1 |-> Round2(v.lv.S1),
     S2 |-> Round2(v.lv.S2), R1 |-> Round2(v.lv.R1),
     R2 |-> Round2(v.lv.R2)]

make_row(ticker, b) == make_row_dict(ticker, b.date, make_row_locals(b))

(***************************************************************************)
(* get_peers_from_finnhub.  svc is what the service does if it is asked:   *)
(* kind "error" (the request raises, a non-2xx status, a body that is not  *)
(* JSON), "notlist" (JSON that is no list) or "list" with its items, each  *)
(* a string ([isStr |-> TRUE, s |-> ...]) or some other JSON value.        *)
(***************************************************************************)
HasKey(e) == get_env(e, "FINNHUB_API_KEY") # <<>>

RECURSIVE FilterPeers(_, _)
FilterPeers(items, seed) ==
    IF items = <<>> THEN <<>>
    ELSE LET p == Head(items)
         IN  IF p.isStr /\ Upper(p.s) # Upper(seed)
             THEN <<Upper(p.s)>> \o FilterPeers(Tail(items), seed)
             ELSE FilterPeers(Tail(items), seed)

\* peers[:MAX_PEERS]
CapPeers(peers) ==
    SubSeq(peers, 1, IF Len(peers) < MAX_PEERS THEN Len(peers) ELSE MAX_PEERS)

get_peers_from_finnhub(e, seed, svc) ==
    IF ~HasKey(e) THEN <<>>
    ELSE IF svc.kind = "list" THEN CapPeers(FilterPeers(svc.items, seed))
    ELSE <<>>

(***************************************************************************)
(* build_group: the candidate list, and the frame built from the rows.     *)
(***************************************************************************)
\* A variant without the de-duplication loop.
Candidates_NoDedup(seed, peers) ==
    [i \in 1..(Len(peers) + 1) |-> Upper((<<seed>> \o peers)[i])]

Candidates(seed, peers) ==
    DedupKeepFirst([i \in 1..(Len(peers) + 1) |->
                       Upper((<<seed>> \o peers)[i])])

\* r["Group"] = seed; r["IsSeed"] = (t == seed)
TagRow(r, seed, isSeed) ==
    [Ticker |-> r.Ticker, Date |-> r.Date, High |-> r.High, Low |-> r.Low,
     Close |-> r.Close, PrevClose |-> r.PrevClose, PctChg |-> r.PctChg,
     PivotP |-> r.PivotP, S1 |-> r.S1, S2 |-> r.S2, R1 |-> r.R1,
     R2 |-> r.R2, Group |-> seed, IsSeed |-> isSeed]

\* sort_values(by=["IsSeed","Ticker"], ascending=[False, True])
RowBefore(a, b) ==
    \/ a.IsSeed /\ ~b.IsSeed
    \/ a.IsSeed = b.IsSeed /\ StrLess(a.Ticker, b.Ticker)

RECURSIVE InsertRow(_, _)
InsertRow(r, sorted) ==
    IF sorted = <<>> THEN <<r>>
    ELSE IF RowBefore(r, Head(sorted)) THEN <<r>> \o sorted
    ELSE <<Head(sorted)>> \o InsertRow(r, Tail(sorted))

\* A stable sort: a row goes after the rows it does not precede.
RECURSIVE SortRows(_)
SortRows(rs) ==
    IF rs = <<>> THEN <<>>
    ELSE InsertRow(rs[Len(rs)], SortRows(SubSeq(rs, 1, Len(rs) - 1)))

\* df[pd.to_numeric(df["Close"], errors="coerce") > 0]
RECURSIVE FilterClose(_)
FilterClose(rs) ==
    IF rs = <<>> THEN <<>>
    ELSE IF GtZero(Head(rs).Close) THEN <<Head(rs)>> \o FilterClose(Tail(rs))
    ELSE FilterClose(Tail(rs))

\* What build_group does with the rows it collected.
FinishGroup(rs) ==
    IF rs = <<>> THEN [raised |-> TRUE, df |-> <<>>]
    ELSE [raised |-> FALSE, df |-> FilterClose(SortRows(rs))]

(***************************************************************************)
(* build_all's dict: (key, value) pairs in insertion order.                *)
(***************************************************************************)
DictKeys(d) == [i \in 1..Len(d) |-> d[i].key]

DictSet(d, k, v) ==
    IF InSeq(k, DictKeys(d))
    THEN [i \in 1..Len(d) |-> IF d[i].key = k THEN [key |-> k, val |-> v]
                              ELSE d[i]]
    ELSE Append(d, [key |-> k, val |-> v])

(***************************************************************************)
(* Inputs: the environment, what the peers service answers, what           *)
(* yf.download returns.                                                    *)
(***************************************************************************)
Env(t, d, k) == [TICKERS |-> t, DEFAULT_TICKERS |-> d, FINNHUB_API_KEY |-> k]

Str(s) == [isStr |-> TRUE, s |-> s]
NotStr == [isStr |-> FALSE, s |-> <<>>]

SvcError == [kind |-> "error", items |-> <<>>]
SvcNotList == [kind |-> "notlist", items |-> <<>>]
SvcList(items) == [kind |-> "list", items |-> items]

SeqsUpTo(S, n) == UNION {[1..k -> S] : k \in 0..n}

Bar(date, h, l, c) == [Date |-> date, High |-> h, Low |-> l, Close |-> c]

DlExc == [exc |-> TRUE, multi |-> FALSE, bars |-> <<>>]
Dl(bars) == [exc |-> FALSE, multi |-> FALSE, bars |-> bars]
DlMulti(bars) == [exc |-> FALSE, multi |-> TRUE, bars |-> bars]

\* The environments of the run, as (TICKERS, DEFAULT_TICKERS,
\* FINNHUB_API_KEY): nothing set; (",", "", "k"); ("A", "", "");
\* ("b, A", "", "k"); ("", "B", "k"); (" ", "B", "").
RunEnvs ==
    {Env(<<>>, <<>>, <<>>),
     Env(<<44>>, <<>>, <<107>>),
     Env(<<65>>, <<>>, <<>>),
     Env(<<98, 44, 32, 65>>, <<>>, <<107>>),
     Env(<<>>, <<66>>, <<107>>),
     Env(<<32>>, <<66>>, <<>>)}

\* The two behaviours of pandas.
PandasBuilds == {"KeyError", "reindex"}

\* The service's answers in the run: an error, a JSON object, [],
\* ["C", "b", "A"] and ["a", 7, "C"].
RunSvc ==
    {SvcError, SvcNotList, SvcList(<<>>),
     SvcList(<<Str(<<67>>), Str(<<98>>), Str(<<65>>)>>),
     SvcList(<<Str(<<97>>), NotStr, Str(<<67>>)>>)}

\* The downloads in the run: an exception; an empty frame; two bars (close
\* 95, then high 110, low 90, close 100); the second of them alone; a
\* previous close of 0; and the two bars under (price, ticker) labels.
RunDownloads ==
    {DlExc, Dl(<<>>),
     Dl(<<Bar("2024-01-02", Num(100), Num(90), Num(95)),
          Bar("2024-01-03", Num(110), Num(90), Num(100))>>),
     Dl(<<Bar("2024-01-03", Num(110), Num(90), Num(100))>>),
     Dl(<<Bar("2024-01-02", Num(0), Num(0), Num(0)),
          Bar("2024-01-03", Num(110), Num(90), Num(100))>>),
     DlMulti(<<Bar("2024-01-02", Num(100), Num(90), Num(95)),
               Bar("2024-01-03", Num(110), Num(90), Num(100))>>)}

(***************************************************************************)
(* The run: __main__, build_all, build_group.                              *)
(***************************************************************************)
Init ==
    /\ env \in RunEnvs
    /\ pandas \in PandasBuilds
    /\ pc = "main"
    /\ seeds = <<>>
    /\ si = 1
    /\ resp = <<>>
    /\ ordered = <<>>
    /\ ti = 1
    /\ rows = <<>>
    /\ skipped = <<>>
    /\ calls = <<>>
    /\ last = <<>>
    /\ ret = <<>>
    /\ groups = <<>>
    /\ failed = <<>>
    /\ probe = <<>>

\* __main__: seeds = parse_seeds(), then build_all(seeds).
ParseSeeds ==
    /\ pc = "main"
    /\ seeds' = parse_seeds(env)
    /\ pc' = "build_all"
    /\ UNCHANGED <<env, pandas, si, resp, ordered, ti, rows, skipped, calls,
                   last, ret, groups, failed, probe>>

\* build_all takes the next seed and build_group resolves its candidates;
\* the peers service is asked only when a key is configured.
BuildGroup_Start(SvcSet) ==
    /\ pc = "build_all"
    /\ si <= Len(seeds)
    /\ \E svc \in SvcSet :
          /\ ordered' = Candidates(seeds[si],
                            get_peers_from_finnhub(env, seeds[si], svc))
          /\ resp' = IF HasKey(env) THEN <<svc>> ELSE <<>>
          /\ calls' = IF HasKey(env)
                      THEN <<[op |-> "peers", arg |-> seeds[si]]>>
                      ELSE <<>>
    /\ ti' = 1
    /\ rows' = <<>>
    /\ skipped' = <<>>
    /\ last' = <<>>
    /\ ret' = <<>>
    /\ pc' = "build_group"
    /\ UNCHANGED <<env, pandas, seeds, si, groups, failed, probe>>

\* A variant of the loop's turn that tries a failed ticker again.
BuildGroup_MakeRow_Retry(DlSet) ==
    /\ pc = "build_group"
    /\ ti <= Len(ordered)
    /\ \E dl \in DlSet :
          LET t == ordered[ti]
              b == fetch_bar(dl, pandas)
          IN  /\ calls' = Append(calls, [op |-> "download", arg |-> t])
              /\ last' = <<[nbars |-> Len(dl.bars), raised |-> b.raised]>>
              /\ IF b.raised
                 THEN /\ skipped' = Append(skipped, t)
                      /\ ti' = ti
                      /\ UNCHANGED rows
                 ELSE /\ rows' = Append(rows,
                             TagRow(make_row(t, b), seeds[si], t = seeds[si]))
                      /\ ti' = ti + 1
                      /\ UNCHANGED skipped
    /\ UNCHANGED <<env, pandas, pc, seeds, si, resp, ordered, ret, groups,
                   failed, probe>>

\* One turn of build_group's loop: make_row(t), whose failure is logged and
\* skipped.
BuildGroup_MakeRow(DlSet) ==
    /\ pc = "build_group"
    /\ ti <= Len(ordered)
    /\ \E dl \in DlSet :
          LET t == ordered[ti]
              b == fetch_bar(dl, pandas)
          IN  /\ calls' = Append(calls, [op |-> "download", arg |-> t])
              /\ last' = <<[nbars |-> Len(dl.bars), raised |-> b.raised]>>
              /\ IF b.raised
                 THEN /\ skipped' = Append(skipped, t)
                      /\ UNCHANGED rows
                 ELSE /\ rows' = Append(rows,
                             TagRow(make_row(t, b), seeds[si], t = seeds[si]))
                      /\ UNCHANGED skipped
    /\ ti' = ti + 1
    /\ UNCHANGED <<env, pandas, pc, seeds, si, resp, ordered, ret, groups,
                   failed, probe>>

\* A variant in which a failed group ends build_all's loop.
BuildGroup_Finish_Stop ==
    /\ pc = "build_group"
    /\ ti > Len(ordered)
    /\ LET r == FinishGroup(rows)
       IN  /\ ret' = <<r>>
           /\ IF r.raised
              THEN /\ failed' = Append(failed, seeds[si])
                   /\ si' = Len(seeds) + 1
                   /\ UNCHANGED groups
              ELSE /\ groups' = DictSet(groups, seeds[si], r.df)
                   /\ si' = si + 1
                   /\ UNCHANGED failed
    /\ pc' = "build_all"
    /\ UNCHANGED <<env, pandas, seeds, resp, ordered, ti, rows, skipped,
                   calls, last, probe>>

\* build_group's loop is over: it raises if no row was collected, else it
\* returns the sorted, filtered frame; build_all stores the frame under the
\* seed, or logs the failure, and goes on to the next seed.
BuildGroup_Finish ==
    /\ pc = "build_group"
    /\ ti > Len(ordered)
    /\ LET r == FinishGroup(rows)
       IN  /\ ret' = <<r>>
           /\ IF r.raised
              THEN /\ failed' = Append(failed, seeds[si])
                   /\ UNCHANGED groups
              ELSE /\ groups' = DictSet(groups, seeds[si], r.df)
                   /\ UNCHANGED failed
    /\ si' = si + 1
    /\ pc' = "build_all"
    /\ UNCHANGED <<env, pandas, seeds, resp, ordered, ti, rows, skipped,
                   calls, last, probe>>

\* build_all's loop is over: it raises if no group was built (the run
\* ends with a FATAL ERROR), else it returns the groups.
BuildAll_Finish ==
    /\ pc = "build_all"
    /\ si > Len(seeds)
    /\ pc' = IF groups = <<>> THEN "fatal" ELSE "returned"
    /\ UNCHANGED <<env, pandas, seeds, si, resp, ordered, ti, rows, skipped,
                   calls, last, ret, groups, failed, probe>>

Next ==
    \/ ParseSeeds
    \/ BuildGroup_Start(RunSvc)
    \/ BuildGroup_MakeRow(RunDownloads)
    \/ BuildGroup_Finish
    \/ BuildAll_Finish

Spec == Init /\ [][Next]_vars

(***************************************************************************)
(* parse_seeds alone, over every TICKERS of at most MaxEnvLen characters   *)
(* among "a", "A", "B", "," and " ", and DEFAULT_TICKERS unset, ",", "B",  *)
(* " b" or "b,a".                                                          *)
(***************************************************************************)
SeedEnvs ==
    {Env(t, d, <<>>) : t \in SeqsUpTo({97, 65, 66, 44, 32}, MaxEnvLen),
                       d \in {<<>>, <<44>>, <<66>>, <<32, 98>>,
                              <<98, 44, 97>>}}

\* The variables of build_all and build_group before the first seed.
Idle ==
    /\ pandas = "KeyError"
    /\ si = 1
    /\ resp = <<>>
    /\ ordered = <<>>
    /\ ti = 1
    /\ rows = <<>>
    /\ skipped = <<>>
    /\ calls = <<>>
    /\ last = <<>>
    /\ ret = <<>>
    /\ groups = <<>>
    /\ failed = <<>>

InitSeeds ==
    /\ env \in SeedEnvs
    /\ pc = "main"
    /\ seeds = <<>>
    /\ probe = <<>>
    /\ Idle

NextSeeds == ParseSeeds

SpecSeeds == InitSeeds /\ [][NextSeeds]_vars

(***************************************************************************)
(* Peer resolution alone: build_group's first lines for the seed AAA or    *)
(* BBB, with and without a key, over every answer of at most MaxRespLen    *)
(* items among "AAA", "aaa", "BBB", "bbb", "CCC" and a non-string, and     *)
(* over the answers that reach the cap: MAX_PEERS - 1 times "DDD", then at *)
(* most two more items.                                                    *)
(***************************************************************************)
PeerItems ==
    {Str(<<65, 65, 65>>), Str(<<97, 97, 97>>), Str(<<66, 66, 66>>),
     Str(<<98, 98, 98>>), Str(<<67, 67, 67>>), NotStr}

LongPrefix == [i \in 1..(MAX_PEERS - 1) |-> Str(<<68, 68, 68>>)]

WideSvc ==
    {SvcError, SvcNotList}
        \cup {SvcList(items) : items \in SeqsUpTo(PeerItems, MaxRespLen)}
        \cup {SvcList(LongPrefix \o items) : items \in SeqsUpTo(PeerItems, 2)}

InitPeers ==
    /\ \E seed \in {<<65, 65, 65>>, <<66, 66, 66>>}, k \in {<<>>, <<107>>} :
          /\ env = Env(seed, <<>>, k)
          /\ seeds = <<seed>>
    /\ pc = "build_all"
    /\ probe = <<>>
    /\ Idle

NextPeers == BuildGroup_Start(WideSvc)

SpecPeers == InitPeers /\ [][NextPeers]_vars

(***************************************************************************)
(* pivots alone: one call, over every high, low and close among NaN, the   *)
(* integers 0..MaxPrice, 90, 100, 110 and the double written 0.1.          *)
(***************************************************************************)
PriceSet ==
    {NaN, Num(90), Num(100), Num(110), Q(1, 10)}
        \cup {Num(i) : i \in 0..MaxPrice}

InitPivots ==
    /\ env = Env(<<>>, <<>>, <<>>)
    /\ pc = "pivots"
    /\ seeds = <<>>
    /\ \E h \in PriceSet, l \in PriceSet, c \in PriceSet :
          probe = [h |-> h, l |-> l, c |-> c, out |-> <<>>]
    /\ Idle

CallPivots ==
    /\ pc = "pivots"
    /\ probe.out = <<>>
    /\ probe' = [probe EXCEPT !.out = <<pivots(probe.h, probe.l, probe.c)>>]
    /\ UNCHANGED <<env, pandas, pc, seeds, si, resp, ordered, ti, rows,
                   skipped, calls, last, ret, groups, failed>>

NextPivots == CallPivots

SpecPivots == InitPivots /\ [][NextPivots]_vars

(***************************************************************************)
(* Properties.                                                             *)
(***************************************************************************)
\* build_group is running or has finished for some seed.
InGroup == pc = "build_group" \/ ret # <<>>

\* The seed of the group being built, or of the group just finished.
CurSeed == IF pc = "build_group" THEN seeds[si] ELSE seeds[si - 1]

\* The latest build_group returned a frame.
Returned == ret # <<>> /\ ~ret[1].raised

TickersOf(rs) == {rs[i].Ticker : i \in 1..Len(rs)}

\* C1: in every group that build_group returns, the first row has
\* IsSeed = TRUE and Ticker = seed, and the rows after the first are sorted
\* ascending by Ticker.
C1_SeedAlwaysFirst ==
    Returned =>
        LET df == ret[1].df
        IN  /\ df # <<>>
            /\ df[1].IsSeed
            /\ df[1].Ticker = CurSeed
            /\ \A i \in 2..Len(df) : \A j \in (i + 1)..Len(df) :
                  StrLess(df[i].Ticker, df[j].Ticker)

\* C2: build_group never returns a group without rows, and build_all never
\* stores one.
C2_NoEmptyGroup ==
    /\ Returned => ret[1].df # <<>>
    /\ \A i \in 1..Len(groups) : groups[i].val # <<>>

\* C3: when exactly one candidate's fetch raised, the returned group has a
\* row for every other candidate and none for the failed one.
C3_AllOthersPresent ==
    Returned /\ Len(skipped) = 1 =>
        /\ \A k \in 1..Len(ordered) :
              ordered[k] # skipped[1] =>
                  ordered[k] \in TickersOf(ret[1].df)
        /\ skipped[1] \notin TickersOf(ret[1].df)

\* C7: when the frame has one bar only, make_row raises nothing and the
\* row's "% Chg" is 0.
C7_DegenerateIsZero ==
    last # <<>> /\ last[1].nbars = 1 =>
        /\ ~last[1].raised
        /\ rows[Len(rows)].PctChg = Num(0)

\* C4: when build_all ends, every seed is either logged as failed or a key
\* of groups, never both; the keys are the seeds that did not fail, in
\* seed order; the run is fatal exactly when every seed failed; and a
\* frame that build_group returned is stored under its seed.
C4_RunIsolation ==
    LET NotFailed(x) == ~InSeq(x, failed)
        NotBuilt(x) == ~InSeq(x, DictKeys(groups))
    IN  /\ pc \in {"returned", "fatal"} =>
              /\ DictKeys(groups) = SelectSeq(seeds, NotFailed)
              /\ failed = SelectSeq(seeds, NotBuilt)
              /\ (pc = "fatal") <=>
                    (\A i \in 1..Len(seeds) : InSeq(seeds[i], failed))
        /\ Returned =>
              \E i \in 1..Len(groups) :
                  groups[i] = [key |-> CurSeed, val |-> ret[1].df]
        /\ ret # <<>> /\ ret[1].raised =>
              /\ InSeq(CurSeed, failed)
              /\ ~InSeq(CurSeed, DictKeys(groups))

\* A run that returned although its first seed's group failed.
C4_Witness ==
    /\ pc = "returned"
    /\ Len(seeds) >= 2
    /\ InSeq(seeds[1], failed)
    /\ DictKeys(groups) = Tail(seeds)

\* C10: within one build_group the peers service is asked at most once,
\* before anything else and for the seed; the downloads issued so far are
\* one per candidate already visited, in candidate order, no ticker twice;
\* and when build_group ends every candidate was tried exactly once.
C10_AttemptOnce ==
    InGroup =>
        LET IsDownload(c) == c.op = "download"
            dls == SelectSeq(calls, IsDownload)
        IN  /\ Cardinality({i \in 1..Len(calls) : calls[i].op = "peers"}) <= 1
            /\ \A i \in 1..Len(calls) :
                  calls[i].op = "peers" => i = 1 /\ calls[i].arg = CurSeed
            /\ Len(dls) = ti - 1
            /\ \A i \in 1..Len(dls) : dls[i].arg = ordered[i]
            /\ \A i \in 1..Len(dls) : \A j \in 1..Len(dls) :
                  i # j => dls[i].arg # dls[j].arg
            /\ ret # <<>> => Len(dls) = Len(ordered)

\* The seed's download failed and the two peers were still tried, once each.
C10_Witness ==
    /\ pc = "build_group"
    /\ Len(ordered) = 3
    /\ ti = 4
    /\ skipped = <<ordered[1]>>
    /\ Len(calls) = 4


\* The service gave no peers: it was not asked (no key), the call failed,
\* or it returned nothing.
NoServicePeers ==
    \/ ~HasKey(env)
    \/ resp # <<>> /\ resp[1].kind \in {"error", "notlist"}
    \/ resp # <<>> /\ resp[1].kind = "list" /\ resp[1].items = <<>>

\* C6: when the service gave no peers the resolved peers are empty and the
\* group is still built from the seed alone.  report.py has no fallback
\* table, so no seed has an entry there and this case is every seed's: the
\* seed is the only candidate, and once its download has returned a frame
\* with at least one bar, build_group returns a group whose only row is the
\* seed's.
C6_SeedAloneGroupBuilt ==
    InGroup /\ NoServicePeers =>
        /\ ordered = <<CurSeed>>
        /\ ret # <<>> /\ last # <<>> /\ last[1].nbars >= 1 =>
              /\ Returned
              /\ Len(ret[1].df) = 1
              /\ ret[1].df[1].Ticker = CurSeed
              /\ ret[1].df[1].IsSeed

(***************************************************************************)
(* Properties of peer resolution (SpecPeers).                              *)
(***************************************************************************)
\* The service answered with a list.
Answered == pc = "build_group" /\ resp # <<>> /\ resp[1].kind = "list"

\* Item k of the answer is a string other than the seed, in any casing.
NonSeedString(k) ==
    resp[1].items[k].isStr /\ Upper(resp[1].items[k].s) # Upper(seeds[si])

\* The first item of the answer that is symbol p, in any casing.
FirstIndex(p) ==
    CHOOSE k \in 1..Len(resp[1].items) :
        /\ resp[1].items[k].isStr /\ Upper(resp[1].items[k].s) = p
        /\ \A m \in 1..(k - 1) :
              ~(resp[1].items[m].isStr /\ Upper(resp[1].items[m].s) = p)

\* The peers are upper-cased items of the answer, none is the seed, none
\* occurs twice, and they are in the order of their first occurrence.
PeersWellFormed ==
    LET peers == Tail(ordered)
        items == resp[1].items
    IN  /\ \A i \in 1..Len(peers) : peers[i] # Upper(seeds[si])
        /\ \A i \in 1..Len(peers) : \A j \in 1..Len(peers) :
              i # j => peers[i] # peers[j]
        /\ \A i \in 1..Len(peers) :
              \E k \in 1..Len(items) :
                  NonSeedString(k) /\ peers[i] = Upper(items[k].s)
        /\ \A i \in 1..Len(peers) : \A j \in (i + 1)..Len(peers) :
              FirstIndex(peers[i]) < FirstIndex(peers[j])

\* C5, as claimed: the peers resolved from an answer exclude the seed and
\* hold every distinct symbol of the answer exactly once, in the order of
\* first occurrence.
C5_EveryDistinctSymbol ==
    Answered =>
        /\ PeersWellFormed
        /\ \A k \in 1..Len(resp[1].items) :
              NonSeedString(k) =>
                  InSeq(Upper(resp[1].items[k].s), Tail(ordered))

\* C5, amended: the peers resolved from an answer exclude the seed and hold
\* exactly once, in the order of first occurrence, every distinct symbol
\* among the first MAX_PEERS strings of the answer that are not the seed.
C5_DistinctSymbolsWithinCap ==
    Answered =>
        /\ PeersWellFormed
        /\ \A k \in 1..Len(resp[1].items) :
              /\ NonSeedString(k)
              /\ Cardinality({m \in 1..k : NonSeedString(m)}) <= MAX_PEERS
              => InSeq(Upper(resp[1].items[k].s), Tail(ordered))
        /\ \A i \in 2..Len(ordered) :
              Cardinality({m \in 1..FirstIndex(ordered[i]) :
                              NonSeedString(m)}) <= MAX_PEERS

\* The seed AAA and the answer ["BBB", "AAA", "bbb"] resolve to ["BBB"].
C5_Witness ==
    /\ Answered
    /\ seeds[si] = <<65, 65, 65>>
    /\ resp[1].items = <<Str(<<66, 66, 66>>), Str(<<65, 65, 65>>),
                         Str(<<98, 98, 98>>)>>
    /\ Tail(ordered) = <<<<66, 66, 66>>>>

(***************************************************************************)
(* Properties of pivots (SpecPivots).                                      *)
(***************************************************************************)
\* pivots was called and has returned.
Pivoted == pc = "pivots" /\ probe.out # <<>>

\* abs(x)
FAbs(x) == IF IsNum(x) THEN [x EXCEPT !.s = 0] ELSE x

\* x >= y for two numbers.
Geq(x, y) == Sub(x, y).s = 0

\* 2^-48
Eps == [t |-> "num", s |-> 0, m |-> <<1>>, e |-> -48]

\* a and b differ by at most 2^-48 times scale.
Near(a, b, scale) == Geq(Mul(Eps, scale), FAbs(Sub(a, b)))

\* C8, as claimed: for numbers h >= l and c, pivots gives P = (h + l + c)/3,
\* S1 = 2P - h, S2 = P - (h - l), R1 = 2P - l, R2 = P + (h - l), and
\* S1 + R1 == 4P - h - l and R2 - S2 == 2(h - l) hold as equalities of
\* floats.
C8_ExactIdentities ==
    Pivoted =>
        LET h == probe.h
            l == probe.l
            c == probe.c
            lv == probe.out[1]
        IN  IsNum(h) /\ IsNum(l) /\ IsNum(c) /\ Geq(h, l) =>
                /\ lv.P = Div(Add(Add(h, l), c), Num(3))
                /\ Add(lv.S1, lv.R1) = Sub(Sub(Mul(Num(4), lv.P), h), l)
                /\ Sub(lv.R2, lv.S2) = Mul(Num(2), Sub(h, l))

\* C8, amended: for numbers h >= l and c, pivots gives the doubles
\* P = (h + l + c)/3, S1 = 2P - h, S2 = P - (h - l), R1 = 2P - l and
\* R2 = P + (h - l), each operation rounded; S1 + R1 and 4P - h - l, and
\* R2 - S2 and 2(h - l), differ by at most 2^-48 (|h| + |l| + |c|);
\* h = 110, l = 90, c = 100 give exactly P = 100, S1 = 90, S2 = 80,
\* R1 = 110, R2 = 120.
C8_PivotFormula ==
    Pivoted =>
        LET h == probe.h
            l == probe.l
            c == probe.c
            lv == probe.out[1]
            scale == Add(Add(FAbs(h), FAbs(l)), FAbs(c))
        IN  IsNum(h) /\ IsNum(l) /\ IsNum(c) /\ Geq(h, l) =>
                /\ lv.P = Div(Add(Add(h, l), c), Num(3))
                /\ lv.S1 = Sub(Mul(Num(2), lv.P), h)
                /\ lv.R1 = Sub(Mul(Num(2), lv.P), l)
                /\ lv.S2 = Sub(lv.P, Sub(h, l))
                /\ lv.R2 = Add(lv.P, Sub(h, l))
                /\ Near(Add(lv.S1, lv.R1),
                        Sub(Sub(Mul(Num(4), lv.P), h), l), scale)
                /\ Near(Sub(lv.R2, lv.S2), Mul(Num(2), Sub(h, l)), scale)
                /\ h = Num(110) /\ l = Num(90) /\ c = Num(100) =>
                      lv = [P |-> Num(100), S1 |-> Num(90), S2 |-> Num(80),
                            R1 |-> Num(110), R2 |-> Num(120)]

\* The call pivots(110, 90, 100) with its five levels.
C8_Witness ==
    /\ Pivoted
    /\ probe.h = Num(110) /\ probe.l = Num(90) /\ probe.c = Num(100)
    /\ probe.out[1].P = Num(100) /\ probe.out[1].S1 = Num(90)
    /\ probe.out[1].R2 = Num(120)

(***************************************************************************)
(* Properties of parse_seeds (SpecSeeds).                                  *)
(***************************************************************************)
\* C9: whatever TICKERS and DEFAULT_TICKERS hold, parse_seeds returns a
\* list that is not empty, of trimmed, upper-cased symbols, none twice.
C9_SeedsNeverEmpty ==
    pc = "build_all" =>
        /\ seeds # <<>>
        /\ \A i \in 1..Len(seeds) :
              /\ seeds[i] # <<>>
              /\ seeds[i] = Upper(Strip(seeds[i]))
              /\ \A j \in 1..Len(seeds) : i # j => seeds[i] # seeds[j]

====
